---- MODULE Spec2Model ----
(***************************************************************************)
(* Model of gridgopher/sheet_collector.py: SheetCollector, Sheet, Region.   *)
(*                                                                         *)
(* Strings that the code takes apart or glues together (file names,        *)
(* subsheet names, region names) are sequences of one-character strings,   *)
(* so that "*.yaml" matching, Path.stem and the f-string that builds       *)
(* full_name are computed, not assumed.  Cell values and cell references   *)
(* are passed through by the code and are plain strings.                   *)
(***************************************************************************)
EXTENDS Integers, Sequences, FiniteSets, TLC

VARIABLES
    fs,            \* the file system: a set of entries [path, kind, content]
    config_dir,    \* SheetCollector.config_dir
    sheets_data,   \* SheetCollector.sheets_data: stem -> Sheet
    pc,            \* where the running call stands
    config_files,  \* collect_files: the paths the glob has still to yield
    sheet_obj,     \* the Sheet under construction / extraction
    idx,           \* collect_regions: number of descriptors already handled
    err,           \* the exception the last call raised, or NoError
    old_data,      \* sheets_data when the running collect_files call began
    calls,         \* number of collect_files calls started
    api_log,       \* the Sheets API requests issued for sheet_obj, in order
    built          \* the Region objects constructed for sheet_obj, in order

vars == <<fs, config_dir, sheets_data, pc, config_files, sheet_obj, idx, err,
          old_data, calls, api_log, built>>

(***************************************************************************)
(* Bounds of the model                                                     *)
(***************************************************************************)
MaxCalls == 2    \* collect_files calls in one behaviour
MaxRows  == 3    \* rows of a fetched range (SpecRegion)
MaxCols  == 2    \* cells of a fetched row (SpecRegion)

(***************************************************************************)
(* Strings as character sequences                                          *)
(***************************************************************************)
Last(s) == s[Len(s)]

EndsWith(s, suffix) ==
    /\ Len(s) >= Len(suffix)
    /\ SubSeq(s, Len(s) - Len(suffix) + 1, Len(s)) = suffix

StartsWith(s, prefix) ==
    /\ Len(s) >= Len(prefix)
    /\ SubSeq(s, 1, Len(prefix)) = prefix

Range(s) == {s[i] : i \in DOMAIN s}

\* every enumeration order of a finite set: the order a directory scan
\* yields its entries in is the file system's
Orderings(S) ==
    {s \in [1..Cardinality(S) -> S] : \A i, j \in 1..Cardinality(S) : s[i] = s[j] => i = j}

DotYaml == <<".", "y", "a", "m", "l">>

(***************************************************************************)
(* pathlib                                                                 *)
(***************************************************************************)
\* fnmatch(name, "*.yaml"): "*" matches any run of characters, the empty
\* one and a leading dot included
MatchesPattern(name) == EndsWith(name, DotYaml)

IsChildOf(path, directory) ==
    /\ Len(path) = Len(directory) + 1
    /\ StartsWith(path, directory)

IsBelow(path, directory) ==
    /\ Len(path) > Len(directory)
    /\ StartsWith(path, directory)

\* Path.glob with a pattern of one component: the entries of the directory
\* itself, of either kind, whose name matches
Glob(fsys, directory) ==
    {e.path : e \in {x \in fsys : IsChildOf(x.path, directory) /\ MatchesPattern(Last(x.path))}}

\* get_yaml_files searching "recursively", as its docstring has it
RecursiveGetYamlFiles(fsys, directory) ==
    {e.path : e \in {x \in fsys : IsBelow(x.path, directory) /\ MatchesPattern(Last(x.path))}}

\* SheetCollector.get_yaml_files
GetYamlFiles(fsys, directory) == Glob(fsys, directory)

\* the positions of "." in a name that Path.suffix accepts: not the
\* first character and not the last
SuffixDots(name) == {i \in 2..(Len(name) - 1) : name[i] = "."}

Max(S) == CHOOSE m \in S : \A x \in S : x <= m

\* Path.stem: the name without its last suffix
Stem(path) ==
    LET name == Last(path)
    IN  IF SuffixDots(name) = {} THEN name
        ELSE SubSeq(name, 1, Max(SuffixDots(name)) - 1)

(***************************************************************************)
(* Values                                                                  *)
(***************************************************************************)
NoError == "none"
NoneCell == "None"                     \* Python's None in a table cell
NoSheet == [type |-> "NoSheet"]        \* no Sheet object has been built

\* what yaml.safe_load makes of a file's text
InvalidYaml == [type |-> "invalid"]    \* text safe_load rejects
NoneValue == [type |-> "NoneType"]     \* an empty document loads as None

IsDict(value) == value.type = "dict"

(***************************************************************************)
(* pandas.DataFrame(rows, columns=...) for a list of lists                 *)
(***************************************************************************)
Width(data) == Max({Len(data[i]) : i \in DOMAIN data})

Pad(row, n) == [j \in 1..n |-> IF j <= Len(row) THEN row[j] ELSE NoneCell]

\* no rows: an empty frame with the given columns.  Otherwise the rows are
\* padded with None to the longest one, and that width has to be the
\* number of columns passed.
DataFrame(data, columns) ==
    IF data = <<>>
    THEN [ok |-> TRUE, df |-> [columns |-> columns, rows |-> <<>>]]
    ELSE IF Width(data) # Len(columns)
    THEN [ok |-> FALSE, err |-> "ValueError"]
    ELSE [ok |-> TRUE,
          df |-> [columns |-> columns,
                  rows |-> [i \in DOMAIN data |-> Pad(data[i], Len(columns))]]]

(***************************************************************************)
(* Sheet                                                                   *)
(***************************************************************************)
\* to_dataframe with slips: the header row left among the data rows; the
\* first row taken for the header whatever headers_in_data says; an empty
\* fetch answered with an empty frame
HeaderRowKeptToDataframe(data, headers_in_data, headers) ==
    IF headers_in_data
    THEN IF data = <<>>
         THEN [ok |-> FALSE, err |-> "IndexError"]
         ELSE DataFrame(data, data[1])
    ELSE IF headers = <<>>
    THEN [ok |-> FALSE, err |-> "Exception"]
    ELSE DataFrame(data, headers)

DeclaredHeadersIgnoredToDataframe(data, headers_in_data, headers) ==
    IF data = <<>>
    THEN IF headers_in_data
         THEN [ok |-> FALSE, err |-> "IndexError"]
         ELSE DataFrame(data, headers)
    ELSE DataFrame(Tail(data), data[1])

EmptyFrameToDataframe(data, headers_in_data, headers) ==
    IF headers_in_data
    THEN IF data = <<>>
         THEN DataFrame(<<>>, <<>>)
         ELSE DataFrame(Tail(data), data[1])
    ELSE IF headers = <<>>
    THEN [ok |-> FALSE, err |-> "Exception"]
    ELSE DataFrame(data, headers)

\* Sheet.to_dataframe.  headers = None and headers = [] are both falsy and
\* the parameter is read nowhere else, so << >> stands for both.
ToDataframe(data, headers_in_data, headers) ==
    IF headers_in_data
    THEN IF data = <<>>
         THEN [ok |-> FALSE, err |-> "IndexError"]       \* data[0]
         ELSE DataFrame(Tail(data), data[1])
    ELSE IF headers = <<>>
    THEN [ok |-> FALSE, err |-> "Exception"]             \* "No passed table headers"
    ELSE DataFrame(data, headers)

\* Sheet.check_config_schema: the assert is all it does
CheckConfigSchema(config) ==
    IF IsDict(config) THEN [ok |-> TRUE] ELSE [ok |-> FALSE, err |-> "AssertionError"]

\* Sheet.execute_sheets_call: .execute() raises, or answers with a mapping
\* that has "values" unless the range is empty
ExecuteSheetsCall(response) ==
    IF response.status # "ok" THEN [ok |-> FALSE, err |-> "HttpError"]
    ELSE IF "values" \in DOMAIN response THEN [ok |-> TRUE, values |-> response.values]
    ELSE [ok |-> TRUE, values |-> <<>>]

\* Region.__init__ with full_name left unqualified
UnqualifiedRegion(region_name, parent_sheet_name, start_range, end_range, data) ==
    [region_name |-> region_name,
     parent_sheet_name |-> parent_sheet_name,
     full_name |-> region_name,
     start_range |-> start_range,
     end_range |-> end_range,
     data |-> data]

\* Region.__init__
Region(region_name, parent_sheet_name, start_range, end_range, data) ==
    [region_name |-> region_name,
     parent_sheet_name |-> parent_sheet_name,
     full_name |-> parent_sheet_name \o <<"_">> \o region_name,
     start_range |-> start_range,
     end_range |-> end_range,
     data |-> data]

\* Region.region_to_pickle, Region.region_to_json: the file written
PickleFile(directory, region) == directory \o <<region.full_name \o <<".", "p", "k", "l">>>>
JsonFile(directory, region) == directory \o <<region.full_name \o <<".", "j", "s", "o", "n">>>>

\* the (subsheet, region descriptor) pairs in the order the two nested
\* loops of Sheet.collect_regions visit them
RECURSIVE Descriptors(_)
Descriptors(sheets) ==
    IF sheets = <<>> THEN <<>>
    ELSE [j \in 1..Len(Head(sheets).regions) |->
             [sheet |-> Head(sheets).name, region |-> Head(sheets).regions[j]]]
         \o Descriptors(Tail(sheets))

HasSheets(config) == "sheets" \in DOMAIN config

DescriptorsOf(config) == IF HasSheets(config) THEN Descriptors(config.sheets) ELSE <<>>

\* the request execute_sheets_call sends
Request(config, d) ==
    [spreadsheetId |-> config.source_id, sheet_name |-> d.sheet,
     start |-> d.region.start, end |-> d.region.end]

\* the store that keeps an entry already there
KeepFirstStore(regions, name, region_object) == regions @@ (name :> region_object)

\* self.regions[region["name"]] = region_object
Store(regions, name, region_object) == (name :> region_object) @@ regions

\* the loop body made all-or-nothing: a failure empties the mapping
ClearOnErrorCollectRegion(regions, d, response) ==
    LET fetched == ExecuteSheetsCall(response)
        table == IF ~fetched.ok THEN fetched
                 ELSE IF d.region.contains_headers
                 THEN ToDataframe(fetched.values, TRUE, <<>>)
                 ELSE IF "headers" \notin DOMAIN d.region
                 THEN [ok |-> FALSE, err |-> "KeyError"]
                 ELSE ToDataframe(fetched.values, FALSE, d.region.headers)
    IN  IF ~table.ok THEN [ok |-> FALSE, err |-> table.err, regions |-> <<>>]
        ELSE [ok |-> TRUE,
              regions |-> Store(regions, d.region.name,
                                Region(d.region.name, d.sheet, d.region.start,
                                       d.region.end, table.df))]

\* one pass of the loop body of Sheet.collect_regions for descriptor d,
\* the API answering with response: the new regions mapping, or the error
CollectRegion(regions, d, response) ==
    LET fetched == ExecuteSheetsCall(response)
        table == IF ~fetched.ok THEN fetched
                 ELSE IF d.region.contains_headers
                 THEN ToDataframe(fetched.values, TRUE, <<>>)
                 ELSE IF "headers" \notin DOMAIN d.region
                 THEN [ok |-> FALSE, err |-> "KeyError"]
                 ELSE ToDataframe(fetched.values, FALSE, d.region.headers)
    IN  IF ~table.ok THEN [ok |-> FALSE, err |-> table.err, regions |-> regions]
        ELSE [ok |-> TRUE,
              regions |-> Store(regions, d.region.name,
                                Region(d.region.name, d.sheet, d.region.start,
                                       d.region.end, table.df))]

\* Sheet.get_region
GetRegion(sheet, region_name) ==
    IF region_name \in DOMAIN sheet.regions
    THEN [ok |-> TRUE, region |-> sheet.regions[region_name]]
    ELSE [ok |-> FALSE, err |-> "KeyError"]

\* Sheet.__init__ after a passed check_config_schema
NewSheet(config) == [type |-> "Sheet", config |-> config, regions |-> <<>>]

(***************************************************************************)
(* The inputs: configurations, API answers, file systems                   *)
(***************************************************************************)
NameA == <<"a">>
NameAB == <<"a", "_", "b">>
NameC == <<"c">>
NameBC == <<"b", "_", "c">>
NameD == <<"d">>

\* region descriptors: headers in the data, headers declared, headers
\* neither in the data nor declared
InData(name, start, end) ==
    [name |-> name, start |-> start, end |-> end, contains_headers |-> TRUE]
Declared(name, start, end, headers) ==
    [name |-> name, start |-> start, end |-> end, contains_headers |-> FALSE,
     headers |-> headers]
Undeclared(name, start, end) ==
    [name |-> name, start |-> start, end |-> end, contains_headers |-> FALSE]

Subsheet(name, regions) == [name |-> name, regions |-> regions]
Config(sheets) == [type |-> "dict", source_id |-> "S1", sheets |-> sheets]

\* a region name used in two subsheets, and a subsheet without regions
CfgShared ==
    Config(<<Subsheet(NameA, <<InData(NameC, "A1", "B2"),
                               Declared(NameBC, "C1", "D2", <<"x", "y">>)>>),
             Subsheet(NameBC, <<>>),
             Subsheet(NameD, <<InData(NameC, "A1", "B2")>>)>>)
\* a region name used twice in one subsheet
CfgTwice ==
    Config(<<Subsheet(NameA, <<InData(NameC, "A1", "B2"), InData(NameC, "C1", "D2")>>)>>)
\* names with an underscore in them
CfgUnderscore ==
    Config(<<Subsheet(NameAB, <<InData(NameC, "A1", "B2")>>),
             Subsheet(NameA, <<InData(NameBC, "A1", "B2")>>)>>)
\* contains_headers: false without headers, after a well-formed region
CfgUndeclared ==
    Config(<<Subsheet(NameA, <<InData(NameC, "A1", "B2"), Undeclared(NameBC, "A1", "B2")>>)>>)
\* contains_headers: false with an empty headers list
CfgNoHeaders ==
    Config(<<Subsheet(NameA, <<Declared(NameC, "A1", "B2", <<>>)>>)>>)
\* a mapping without "sheets"
CfgNoSheets == [type |-> "dict", source_id |-> "S1"]

FileContents ==
    {CfgShared, CfgTwice, CfgUnderscore, CfgUndeclared, CfgNoHeaders, CfgNoSheets,
     NoneValue, InvalidYaml}

File(path, content) == [path |-> path, kind |-> "file", content |-> content]
Dir(path) == [path |-> path, kind |-> "dir", content |-> NoneValue]

CfgDir == <<<<"c", "f", "g">>>>
SubDir == CfgDir \o <<<<"s", "u", "b">>>>
F1 == CfgDir \o <<<<"f", "1">> \o DotYaml>>
F2 == CfgDir \o <<<<"f", "2">> \o DotYaml>>
YamlDir == CfgDir \o <<<<"d">> \o DotYaml>>
Nested == SubDir \o <<<<"g">> \o DotYaml>>

\* the file systems the collector runs on: f1.yaml, beside it f2.yaml or a
\* directory d.yaml or nothing, and a yaml file one level down
CollectorFileSystems ==
    {{Dir(CfgDir), Dir(SubDir), File(Nested, CfgTwice), File(F1, c1)} \cup second :
        c1 \in FileContents,
        second \in {{}, {Dir(YamlDir)}} \cup {{File(F2, c2)} : c2 \in FileContents}}

\* the answers of the Sheets API
Table == <<<<"x", "y">>, <<"1", "2">>>>
Column == <<<<"y">>, <<"2">>>>
Refused == [status |-> "HttpError"]
EmptyRange == [status |-> "ok"]
Values(data) == [status |-> "ok", values |-> data]

Responses == {Refused, EmptyRange, Values(Table), Values(Column)}

\* every answer with at most MaxRows rows of 1..MaxCols cells
Cells == {"x", "1"}
Rows == UNION {[1..w -> Cells] : w \in 1..MaxCols}
Tables == UNION {[1..n -> Rows] : n \in 0..MaxRows}
AllResponses == {Refused, EmptyRange} \cup {Values(t) : t \in Tables}

\* the configurations of SpecRegion: one well-formed region descriptor
RegionConfigs ==
    {Config(<<Subsheet(NameA, <<d>>)>>) :
        d \in {InData(NameC, "A1", "B2"),
               Declared(NameC, "A1", "B2", <<"x">>),
               Declared(NameC, "A1", "B2", <<"x", "y">>)}}

\* the file systems of SpecGlob: the configuration directory and any choice
\* of entries in it and below it, parents present
U1 == CfgDir \o <<<<"x", ".", "y", "m", "l">>>>
U2 == CfgDir \o <<DotYaml>>
U3 == CfgDir \o <<<<"f", "1">> \o DotYaml \o <<".", "b", "a", "k">>>>
U4 == YamlDir \o <<<<"h">> \o DotYaml>>
GlobEntries ==
    {File(F1, NoneValue), File(U1, NoneValue), File(U2, NoneValue), File(U3, NoneValue),
     Dir(YamlDir), File(U4, NoneValue), Dir(SubDir), File(Nested, NoneValue)}
Parent(path) == SubSeq(path, 1, Len(path) - 1)
GlobFileSystems ==
    {{Dir(CfgDir)} \cup S : S \in
        {T \in SUBSET GlobEntries :
            \A e \in T : Parent(e.path) = CfgDir \/ Dir(Parent(e.path)) \in T}}

(***************************************************************************)
(* SheetCollector.collect_files, step by step                              *)
(***************************************************************************)
TypeOK ==
    /\ pc \in {"idle", "files", "regions", "raised", "returned", "globbed"}
    /\ calls \in 0..MaxCalls
    /\ idx \in Nat

\* SheetCollector.__init__ has run: authenticate_api returned (or there
\* would be no collector), so self.sheets is set and sheets_data is empty
Init ==
    /\ fs \in CollectorFileSystems
    /\ config_dir = CfgDir
    /\ sheets_data = <<>>
    /\ pc = "idle"
    /\ config_files = <<>>
    /\ sheet_obj = NoSheet
    /\ idx = 0
    /\ err = NoError
    /\ old_data = <<>>
    /\ calls = 0
    /\ api_log = <<>>
    /\ built = <<>>

Raise(e) ==
    /\ pc' = "raised"
    /\ err' = e

EntryAt(path) == CHOOSE e \in fs : e.path = path

\* open(yaml_file), yaml.safe_load, Sheet(config_data, self.sheets)
LoadSheet(entry) ==
    IF entry.kind = "dir" THEN [ok |-> FALSE, err |-> "IsADirectoryError"]
    ELSE IF entry.content = InvalidYaml THEN [ok |-> FALSE, err |-> "YAMLError"]
    ELSE IF ~CheckConfigSchema(entry.content).ok
    THEN [ok |-> FALSE, err |-> CheckConfigSchema(entry.content).err]
    ELSE [ok |-> TRUE, sheet |-> NewSheet(entry.content)]

\* collect_files up to the loop: the authentication guard passes, the glob
\* is set up
CollectFilesBegin ==
    /\ pc \in {"idle", "raised"}
    /\ calls < MaxCalls
    /\ config_files' \in Orderings(GetYamlFiles(fs, config_dir))
    /\ pc' = "files"
    /\ calls' = calls + 1
    /\ old_data' = sheets_data
    /\ err' = NoError
    /\ sheet_obj' = NoSheet
    /\ idx' = 0
    /\ api_log' = <<>>
    /\ built' = <<>>
    /\ UNCHANGED <<fs, config_dir, sheets_data>>

\* LoadFile with the registration moved up, ahead of collect_regions
RegisterOnLoadLoadFile ==
    /\ pc = "files"
    /\ config_files # <<>>
    /\ LoadSheet(EntryAt(Head(config_files))).ok
    /\ sheet_obj' = LoadSheet(EntryAt(Head(config_files))).sheet
    /\ sheets_data' = (Stem(Head(config_files)) :> sheet_obj') @@ sheets_data
    /\ pc' = "regions"
    /\ idx' = 0
    /\ api_log' = <<>>
    /\ built' = <<>>
    /\ UNCHANGED <<fs, config_dir, config_files, err, old_data, calls>>

\* the loop takes the next file, loads it and constructs its Sheet
LoadFile ==
    /\ pc = "files"
    /\ config_files # <<>>
    /\ LoadSheet(EntryAt(Head(config_files))).ok
    /\ sheet_obj' = LoadSheet(EntryAt(Head(config_files))).sheet
    /\ pc' = "regions"
    /\ idx' = 0
    /\ api_log' = <<>>
    /\ built' = <<>>
    /\ UNCHANGED <<fs, config_dir, sheets_data, config_files, err, old_data, calls>>

LoadFileFails ==
    /\ pc = "files"
    /\ config_files # <<>>
    /\ ~LoadSheet(EntryAt(Head(config_files))).ok
    /\ Raise(LoadSheet(EntryAt(Head(config_files))).err)
    /\ sheet_obj' = NoSheet
    /\ UNCHANGED <<fs, config_dir, sheets_data, config_files, idx, old_data, calls, api_log,
                   built>>

\* Sheet.collect_regions: self.config["sheets"] of a mapping without it
CollectRegionsNoSheets ==
    /\ pc = "regions"
    /\ ~HasSheets(sheet_obj.config)
    /\ Raise("KeyError")
    /\ UNCHANGED <<fs, config_dir, sheets_data, config_files, sheet_obj, idx, old_data,
                   calls, api_log, built>>

\* Sheet.collect_regions: one pass of the loop body
CollectRegionStep(responses) ==
    /\ pc = "regions"
    /\ idx < Len(DescriptorsOf(sheet_obj.config))
    /\ \E response \in responses :
        LET d == DescriptorsOf(sheet_obj.config)[idx + 1]
            result == CollectRegion(sheet_obj.regions, d, response)
        IN  /\ api_log' = Append(api_log, [request |-> Request(sheet_obj.config, d),
                                           response |-> response])
            /\ sheet_obj' = [sheet_obj EXCEPT !.regions = result.regions]
            /\ IF result.ok
               THEN /\ idx' = idx + 1
                    /\ built' = Append(built, result.regions[d.region.name])
                    /\ UNCHANGED <<pc, err>>
               ELSE /\ Raise(result.err)
                    /\ UNCHANGED <<idx, built>>
    /\ UNCHANGED <<fs, config_dir, sheets_data, config_files, old_data, calls>>

\* the registration that stores a fresh Sheet of the same configuration
WithoutRegionsRegister(data, path, sheet) == (Stem(path) :> NewSheet(sheet.config)) @@ data

\* self.sheets_data[yaml_file.stem] = sheet_obj
Register(data, path, sheet) == (Stem(path) :> sheet) @@ data

\* collect_regions returned to collect_files: the Sheet is registered
RegisterSheet ==
    /\ pc = "regions"
    /\ config_files # <<>>
    /\ HasSheets(sheet_obj.config)
    /\ idx = Len(DescriptorsOf(sheet_obj.config))
    /\ sheets_data' = Register(sheets_data, Head(config_files), sheet_obj)
    /\ config_files' = Tail(config_files)
    /\ pc' = "files"
    /\ UNCHANGED <<fs, config_dir, sheet_obj, idx, err, old_data, calls, api_log,
                   built>>

\* the glob is exhausted: collect_files returns
CollectFilesReturn ==
    /\ pc = "files"
    /\ config_files = <<>>
    /\ pc' = "idle"
    /\ UNCHANGED <<fs, config_dir, sheets_data, config_files, sheet_obj, idx, err,
                   old_data, calls, api_log, built>>

Next ==
    \/ CollectFilesBegin
    \/ LoadFile
    \/ LoadFileFails
    \/ CollectRegionsNoSheets
    \/ CollectRegionStep(Responses)
    \/ RegisterSheet
    \/ CollectFilesReturn

Spec == Init /\ [][Next]_vars

(***************************************************************************)
(* A Sheet used on its own: constructed from a configuration with one      *)
(* well-formed region, then collect_regions runs against every answer      *)
(***************************************************************************)
InitRegion ==
    /\ fs = {Dir(CfgDir)}
    /\ config_dir = CfgDir
    /\ sheets_data = <<>>
    /\ pc = "regions"
    /\ config_files = <<>>
    /\ \E config \in RegionConfigs : sheet_obj = NewSheet(config)
    /\ idx = 0
    /\ err = NoError
    /\ old_data = <<>>
    /\ calls = 0
    /\ api_log = <<>>
    /\ built = <<>>

\* collect_regions returns to a caller other than collect_files
CollectRegionsReturn ==
    /\ pc = "regions"
    /\ config_files = <<>>
    /\ HasSheets(sheet_obj.config)
    /\ idx = Len(DescriptorsOf(sheet_obj.config))
    /\ pc' = "returned"
    /\ UNCHANGED <<fs, config_dir, sheets_data, config_files, sheet_obj, idx, err,
                   old_data, calls, api_log, built>>

NextRegion ==
    \/ CollectRegionStep(AllResponses)
    \/ CollectRegionsReturn

SpecRegion == InitRegion /\ [][NextRegion]_vars

(***************************************************************************)
(* get_yaml_files on its own, over every file system and directory         *)
(***************************************************************************)
InitGlob ==
    /\ fs \in GlobFileSystems
    /\ config_dir \in {CfgDir, SubDir, YamlDir}
    /\ sheets_data = <<>>
    /\ pc = "idle"
    /\ config_files = <<>>
    /\ sheet_obj = NoSheet
    /\ idx = 0
    /\ err = NoError
    /\ old_data = <<>>
    /\ calls = 0
    /\ api_log = <<>>
    /\ built = <<>>

\* list(get_yaml_files(config_dir))
GetYamlFilesCall ==
    /\ pc = "idle"
    /\ config_files' \in Orderings(GetYamlFiles(fs, config_dir))
    /\ pc' = "globbed"
    /\ UNCHANGED <<fs, config_dir, sheets_data, sheet_obj, idx, err, old_data, calls,
                   api_log, built>>

NextGlob == GetYamlFilesCall

SpecGlob == InitGlob /\ [][NextGlob]_vars

(***************************************************************************)
(* Properties                                                              *)
(***************************************************************************)
Names(descs, n) == {descs[j].region.name : j \in 1..n}
LastNamed(descs, n, name) == Max({j \in 1..n : descs[j].region.name = name})

\* region is what descriptor d of a subsheet is built into, table aside
BuiltFrom(region, d) ==
    /\ region.region_name = d.region.name
    /\ region.parent_sheet_name = d.sheet
    /\ region.start_range = d.region.start
    /\ region.end_range = d.region.end

\* sheet went through collect_regions for every descriptor of config
Complete(sheet, config) ==
    /\ sheet.config = config
    /\ HasSheets(config)
    /\ LET descs == DescriptorsOf(config)
       IN  /\ DOMAIN sheet.regions = Names(descs, Len(descs))
           /\ \A n \in DOMAIN sheet.regions :
                BuiltFrom(sheet.regions[n], descs[LastNamed(descs, Len(descs), n)])

\* the files the running collect_files call has registered
Done == GetYamlFiles(fs, config_dir) \ Range(config_files)

Unchanged(key) ==
    /\ key \in DOMAIN sheets_data <=> key \in DOMAIN old_data
    /\ key \in DOMAIN sheets_data => sheets_data[key] = old_data[key]

\* C1 as claimed: when collect_files raises, sheets_data equals its value
\* from before the call
C1_Transactional == pc = "raised" => sheets_data = old_data

\* C1, amended: when collect_files raises, the file at which it raised and
\* the files after it have changed nothing in sheets_data, and the files the
\* call processed before it are registered with their complete Sheets
C1_FailureKeepsEarlierFiles ==
    pc = "raised" =>
        /\ config_files # <<>>
        /\ err # NoError
        /\ DOMAIN sheets_data = DOMAIN old_data \cup {Stem(p) : p \in Done}
        /\ \A p \in Done : Complete(sheets_data[Stem(p)], EntryAt(p).content)
        /\ \A key \in DOMAIN sheets_data \ {Stem(p) : p \in Done} : Unchanged(key)

C1_Witness ==
    /\ pc = "raised"
    /\ Done # {}
    /\ sheets_data # old_data
    /\ calls = 1

Undeclares(d) == ~d.region.contains_headers /\ "headers" \notin DOMAIN d.region

\* C3: no Sheet object exists for a configuration with a region that has
\* contains_headers = false and no headers: its construction raises, before
\* any request is sent
C3_SchemaErrorBeforeFetch ==
    sheet_obj # NoSheet =>
        \A j \in DOMAIN DescriptorsOf(sheet_obj.config) :
            ~Undeclares(DescriptorsOf(sheet_obj.config)[j])

\* C8: every Sheet in sheets_data went through collect_regions for all the
\* regions it declares, and the file being processed, or at which the call
\* raised, has no Sheet registered by this call
C8_RegisteredSheetsComplete ==
    /\ \A key \in DOMAIN sheets_data : Complete(sheets_data[key], sheets_data[key].config)
    /\ (pc \in {"regions", "raised"} /\ config_files # <<>>) =>
            Unchanged(Stem(Head(config_files)))

C8_Witness ==
    /\ pc = "raised"
    /\ sheet_obj # NoSheet
    /\ built # <<>>
    /\ Stem(Head(config_files)) \notin DOMAIN sheets_data
    /\ sheets_data # <<>>

\* collect_regions is running, or has run, on sheet_obj
Extracting == sheet_obj # NoSheet /\ HasSheets(sheet_obj.config)

Descs == DescriptorsOf(sheet_obj.config)

\* collect_regions raised in its loop body
RegionFailed == pc = "raised" /\ Extracting

\* the rows the last request brought back
Fetched(entry) == ExecuteSheetsCall(entry.response)

EmptyWithHeaders ==
    /\ Extracting
    /\ api_log # <<>>
    /\ Descs[Len(api_log)].region.contains_headers
    /\ Fetched(api_log[Len(api_log)]) = [ok |-> TRUE, values |-> <<>>]

SamePair(r1, r2) ==
    /\ r1.parent_sheet_name = r2.parent_sheet_name
    /\ r1.region_name = r2.region_name

Plain(name) == "_" \notin Range(name)

\* C7 as claimed: two Regions that one Sheet built from different
\* (subsheet name, region name) pairs differ in full_name and so in the
\* names of the files they are written to
C7_FullNameUnique ==
    \A j, k \in DOMAIN built :
        ~SamePair(built[j], built[k]) =>
            /\ built[j].full_name # built[k].full_name
            /\ PickleFile(<<>>, built[j]) # PickleFile(<<>>, built[k])
            /\ JsonFile(<<>>, built[j]) # JsonFile(<<>>, built[k])

\* C7, amended: two Regions that one Sheet built from different (subsheet
\* name, region name) pairs, the subsheet names free of "_", differ in
\* full_name and so in the names of the files they are written to
C7_FullNameUniquePlainSubsheets ==
    \A j, k \in DOMAIN built :
        (~SamePair(built[j], built[k]) /\ Plain(built[j].parent_sheet_name)
            /\ Plain(built[k].parent_sheet_name)) =>
            /\ built[j].full_name # built[k].full_name
            /\ PickleFile(<<>>, built[j]) # PickleFile(<<>>, built[k])
            /\ JsonFile(<<>>, built[j]) # JsonFile(<<>>, built[k])

C7_Witness ==
    \E j, k \in DOMAIN built :
        /\ built[j].parent_sheet_name # built[k].parent_sheet_name
        /\ built[j].region_name # built[k].region_name
        /\ Plain(built[j].parent_sheet_name)
        /\ Plain(built[k].parent_sheet_name)
        /\ ~Plain(built[j].region_name)

\* collect_regions went through every descriptor
PassDone == Extracting /\ pc # "raised" /\ idx = Len(Descs)

\* C10: after a pass over descriptors that share region names no error was
\* raised, the mapping has one entry for each distinct name, stored under
\* the Region's own region_name, and get_region returns the Region built
\* from the last descriptor of that name
C10_LastDescriptorWins ==
    PassDone =>
        /\ err = NoError
        /\ Len(built) = Len(Descs)
        /\ \A j \in 1..Len(Descs) : BuiltFrom(built[j], Descs[j])
        /\ DOMAIN sheet_obj.regions = Names(Descs, Len(Descs))
        /\ \A n \in DOMAIN sheet_obj.regions :
            /\ sheet_obj.regions[n].region_name = n
            /\ GetRegion(sheet_obj, n) =
                [ok |-> TRUE, region |-> built[LastNamed(Descs, Len(Descs), n)]]

C10_Witness ==
    /\ PassDone
    /\ \E j, k \in 1..Len(Descs) :
        /\ j < k
        /\ Descs[j].region.name = Descs[k].region.name
        /\ Descs[j].sheet # Descs[k].sheet
        /\ GetRegion(sheet_obj, Descs[j].region.name).region = built[k]
        /\ built[j] # built[k]

\* the rows the request for the first descriptor brought back
FirstRows == Fetched(api_log[1]).values

\* the table of the Region built from the first descriptor
FirstTable == sheet_obj.regions[Descs[1].region.name].data

\* the first descriptor has been handled, with the request answered
FirstHandled == Extracting /\ Len(api_log) >= 1 /\ Fetched(api_log[1]).ok

\* row holds under the columns, left to right, the cells of fetched, and
\* None where fetched has run out
HoldsRow(row, columns, fetched) ==
    /\ Len(row) = Len(columns)
    /\ \A c \in 1..Len(columns) :
        row[c] = IF c <= Len(fetched) THEN fetched[c] ELSE NoneCell

\* C4: a Region built from a descriptor with contains_headers = true and a
\* fetch of at least one row has the first fetched row for its column names,
\* one row less than were fetched, and in row k the cells of fetched row
\* k + 1; and it is built whenever the rows after the first, if any, extend
\* to the width of the first
C4_HeadersFromFirstRow ==
    (FirstHandled /\ Descs[1].region.contains_headers /\ FirstRows # <<>>) =>
        /\ idx >= 1 <=> (Len(FirstRows) = 1 \/ Width(Tail(FirstRows)) = Len(FirstRows[1]))
        /\ idx >= 1 =>
            /\ FirstTable.columns = FirstRows[1]
            /\ Len(FirstTable.rows) = Len(FirstRows) - 1
            /\ \A k \in 1..Len(FirstTable.rows) :
                HoldsRow(FirstTable.rows[k], FirstRows[1], FirstRows[k + 1])

C4_Witness ==
    /\ FirstHandled
    /\ Descs[1].region.contains_headers
    /\ idx = 1
    /\ Len(FirstRows) = 3
    /\ FirstRows[2] # FirstRows[3]
    /\ FirstRows[1] # FirstRows[2]
    /\ Len(FirstTable.rows) = 2

\* C5: a Region built from a descriptor with contains_headers = false and a
\* non-empty headers list has the headers for its column names and a row for
\* every fetched row, the first one included, also when nothing was fetched;
\* and it is built whenever the fetched rows, if any, extend to the number of
\* headers
C5_HeadersFromDescriptor ==
    (FirstHandled /\ ~Descs[1].region.contains_headers) =>
        /\ idx >= 1 <=> (FirstRows = <<>> \/ Width(FirstRows) = Len(Descs[1].region.headers))
        /\ idx >= 1 =>
            /\ FirstTable.columns = Descs[1].region.headers
            /\ Len(FirstTable.rows) = Len(FirstRows)
            /\ \A k \in 1..Len(FirstTable.rows) :
                HoldsRow(FirstTable.rows[k], Descs[1].region.headers, FirstRows[k])

C5_Witness ==
    /\ FirstHandled
    /\ ~Descs[1].region.contains_headers
    /\ idx = 1
    /\ Len(FirstRows) = 2
    /\ FirstRows[1] # FirstRows[2]
    /\ Len(FirstTable.rows) = 2
    /\ FirstTable.rows[1] = FirstRows[1]

\* the files, and the entries of either kind, that lie in the directory
\* itself and are named *.yaml
DirectYaml(kinds) ==
    {e.path : e \in {x \in fs : /\ x.kind \in kinds
                                /\ Parent(x.path) = config_dir
                                /\ EndsWith(Last(x.path), DotYaml)}}

====
